---------------------------- MODULE Spec2Model ----------------------------
(***************************************************************************)
(* Model of the winres resource set (winres.go) and of its binary codec    *)
(* for the .rsrc directory (the encoder and the decoder).                  *)
(*                                                                         *)
(* An Identifier is a record [isName, id, name]: ID(n) is the ordinal n,   *)
(* Name(s) the name whose runes (Unicode scalar values) are the sequence s.*)
(* A Go map is a function; a nil slice and an empty one are told apart by  *)
(* the field "nil" of the record that holds the slice.                     *)
(***************************************************************************)
EXTENDS Integers, Sequences, FiniteSets, TLC

VARIABLES
    rs,        \* the ResourceSet: [Types, lastIconID, lastCursorID]
    op,        \* the last operation called on it
    err,       \* the error that call returned ("nil" when none)
    visited,   \* the visitor calls made by the last Walk / WalkType
    section,   \* the bytes of the .rsrc section last written or handed to the decoder
    reloc,     \* the relocation list returned by the last write
    loaded     \* what the last loadFromEXE returned: [isNil, rs, log]

vars == <<rs, op, err, visited, section, reloc, loaded>>

(***************************************************************************)
(* Bounds of the model                                                     *)
(***************************************************************************)
\* the largest number of (type, id, language) triples a set holds
MaxTriples == 2
\* the longest payload whose padded size is computed
MaxPayloadLen == 24

\* the counter up to which icons are embedded (and from 65534 on)
MaxMinted == 3

\* the triples a set of the counters' histories holds at most
MaxCounterTriples == 4

(***************************************************************************)
(* Program constants                                                       *)
(***************************************************************************)
RT_CURSOR == 1
RT_ICON == 3
RT_GROUP_CURSOR == 12
RT_GROUP_ICON == 14
LCIDNeutral == 0
LCIDDefault == 1033
dataAlignment == 8
sizeOfDirTable == 16
sizeOfDirEntry == 8
sizeOfDataEntry == 16
\* A uint32 is held as two 16-bit halves [hi, lo]: subdirectoryOffset and
\* nameOffset, both 0x80000000, are the bit 0x8000 of the high half.
flagBit == 32768
\* the width of a uint16, and of each half of a uint32
TwoTo16 == 65536

NoErr == "nil"

(***************************************************************************)
(* Identifiers                                                             *)
(***************************************************************************)
ID(n) == [isName |-> FALSE, id |-> n, name |-> <<>>]

Name(s) == [isName |-> TRUE, id |-> 0, name |-> s]

\* Go's < on strings, on the runes of two valid strings (UTF-8 keeps the
\* order of the code points): lexicographic, a proper prefix first.
RECURSIVE StrLess(_, _)
StrLess(a, b) ==
    IF b = <<>> THEN FALSE
    ELSE IF a = <<>> THEN TRUE
    ELSE IF Head(a) # Head(b) THEN Head(a) < Head(b)
    ELSE StrLess(Tail(a), Tail(b))

\* a plausible slip: ordinals before names
lessThanIDsFirst(a, b) ==
    IF a.isName
    THEN b.isName /\ StrLess(a.name, b.name)
    ELSE b.isName \/ a.id < b.id

\* Identifier.lessThan: names in case sensitive ascending order, then IDs in
\* ascending order.
lessThan(a, b) ==
    IF a.isName
    THEN IF b.isName THEN StrLess(a.name, b.name) ELSE TRUE
    ELSE IF b.isName THEN FALSE ELSE a.id < b.id

\* checkIdentifier: the zero ordinal and the empty name are no identifiers.
checkIdentifier(ident) ==
    IF ident.isName
    THEN IF ident.name = <<>> THEN "errEmptyName" ELSE NoErr
    ELSE IF ident.id = 0 THEN "errZeroID" ELSE NoErr

(***************************************************************************)
(* Maps and slices                                                         *)
(***************************************************************************)
EmptyMap == <<>>

MapPut(m, k, v) == [x \in DOMAIN m \cup {k} |-> IF x = k THEN v ELSE m[x]]

MapDelete(m, k) == [x \in DOMAIN m \ {k} |-> m[x]]

NilSlice == [nil |-> TRUE, keys |-> <<>>]

Slice(s) == [nil |-> FALSE, keys |-> s]

NilData == [isNil |-> TRUE, bytes |-> <<>>]

Bytes(b) == [isNil |-> FALSE, bytes |-> b]

\* sort.Slice of the keys of a map with lessThan: the keys are distinct, so
\* the result does not depend on the order the map was iterated in.
RECURSIVE SortIdentifiers(_)
SortIdentifiers(S) ==
    IF S = {} THEN <<>>
    ELSE LET x == CHOOSE y \in S : \A z \in S : ~lessThan(z, y)
         IN  <<x>> \o SortIdentifiers(S \ {x})

\* sort.Search(len(keys), func(i) { _, ok := keys[i].(ID); return ok }):
\* the binary search of the first ordinal, between i and j (0-based).
RECURSIVE SearchFirstID(_, _, _)
SearchFirstID(keys, i, j) ==
    IF i >= j THEN i
    ELSE LET h == (i + j) \div 2
         IN  IF keys[h + 1].isName
             THEN SearchFirstID(keys, h + 1, j)
             ELSE SearchFirstID(keys, i, h)

(***************************************************************************)
(* The data model: ResourceSet, TypeEntry, ResourceEntry, DataEntry        *)
(***************************************************************************)
EmptySet == [Types |-> EmptyMap, lastIconID |-> 0, lastCursorID |-> 0]

\* ResourceSet.Get
Get(r, typeID, resID, langID) ==
    IF typeID \notin DOMAIN r.Types THEN NilData
    ELSE LET te == r.Types[typeID]
         IN  IF resID \notin DOMAIN te.Resources THEN NilData
             ELSE LET re == te.Resources[resID]
                  IN  IF langID \notin DOMAIN re.Data THEN NilData
                      ELSE re.Data[langID].Data

\* a plausible slip: the emptied resource entry is left in its type
deleteNoPrune(r, typeID, resID, langID) ==
    IF typeID \notin DOMAIN r.Types THEN r
    ELSE LET te == r.Types[typeID]
         IN  IF resID \notin DOMAIN te.Resources THEN r
             ELSE LET re  == te.Resources[resID]
                      re1 == [re EXCEPT !.Data = MapDelete(re.Data, langID),
                                        !.OrderedKeys = NilSlice]
                  IN  [r EXCEPT !.Types[typeID].Resources[resID] = re1]

\* ResourceSet.delete
delete(r, typeID, resID, langID) ==
    IF typeID \notin DOMAIN r.Types THEN r
    ELSE LET te == r.Types[typeID]
         IN  IF resID \notin DOMAIN te.Resources THEN r
             ELSE LET re  == te.Resources[resID]
                      re1 == [re EXCEPT !.Data = MapDelete(re.Data, langID),
                                        !.OrderedKeys = NilSlice]
                  IN  IF DOMAIN re1.Data # {}
                      THEN [r EXCEPT !.Types[typeID].Resources[resID] = re1]
                      ELSE LET te1 == [te EXCEPT
                                         !.Resources = MapDelete(te.Resources, resID),
                                         !.OrderedKeys = NilSlice]
                           IN  IF DOMAIN te1.Resources # {}
                               THEN [r EXCEPT !.Types[typeID] = te1]
                               ELSE [r EXCEPT !.Types = MapDelete(r.Types, typeID)]

\* a plausible slip: the counters hold the last ordinal stored, not the
\* highest
setCountersLast(r, typeID, resID) ==
    IF typeID = ID(RT_ICON)
    THEN IF ~resID.isName
         THEN [r EXCEPT !.lastIconID = resID.id] ELSE r
    ELSE IF typeID = ID(RT_CURSOR)
    THEN IF ~resID.isName
         THEN [r EXCEPT !.lastCursorID = resID.id] ELSE r
    ELSE r

\* the icon / cursor counters of ResourceSet.set
setCounters(r, typeID, resID) ==
    IF typeID = ID(RT_ICON)
    THEN IF ~resID.isName /\ r.lastIconID < resID.id
         THEN [r EXCEPT !.lastIconID = resID.id] ELSE r
    ELSE IF typeID = ID(RT_CURSOR)
    THEN IF ~resID.isName /\ r.lastCursorID < resID.id
         THEN [r EXCEPT !.lastCursorID = resID.id] ELSE r
    ELSE r

\* a plausible slip: a replaced payload is kept
setKeepOld(r, typeID, resID, langID, data) ==
    IF data.isNil THEN delete(r, typeID, resID, langID)
    ELSE IF ~Get(r, typeID, resID, langID).isNil THEN r
    ELSE LET te == IF typeID \in DOMAIN r.Types THEN r.Types[typeID]
                   ELSE [Resources |-> EmptyMap, OrderedKeys |-> NilSlice,
                         NamesCount |-> 0]
             re == IF resID \in DOMAIN te.Resources THEN te.Resources[resID]
                   ELSE [Data |-> EmptyMap, OrderedKeys |-> NilSlice]
             re1 == [Data |-> MapPut(re.Data, langID, [Data |-> data]),
                     OrderedKeys |-> NilSlice]
             te1 == [te EXCEPT !.Resources = MapPut(te.Resources, resID, re1),
                               !.OrderedKeys = NilSlice]
         IN  [r EXCEPT !.Types = MapPut(r.Types, typeID, te1)]

\* ResourceSet.set
set(r, typeID, resID, langID, data) ==
    IF data.isNil THEN delete(r, typeID, resID, langID)
    ELSE LET newType == typeID \notin DOMAIN r.Types
             te == IF newType
                   THEN [Resources |-> EmptyMap, OrderedKeys |-> NilSlice,
                         NamesCount |-> 0]
                   ELSE r.Types[typeID]
             newRes == resID \notin DOMAIN te.Resources
             re == IF newRes
                   THEN [Data |-> EmptyMap, OrderedKeys |-> NilSlice]
                   ELSE te.Resources[resID]
             newLang == langID \notin DOMAIN re.Data
             re1 == [Data |-> MapPut(re.Data, langID, [Data |-> data]),
                     OrderedKeys |-> IF newLang THEN NilSlice ELSE re.OrderedKeys]
             te1 == [Resources |-> MapPut(te.Resources, resID, re1),
                     OrderedKeys |-> IF newRes THEN NilSlice ELSE te.OrderedKeys,
                     NamesCount |-> te.NamesCount]
             r1 == [r EXCEPT !.Types = MapPut(r.Types, typeID, te1)]
         IN  setCounters(r1, typeID, resID)

\* a plausible slip: only the resource identifier is checked
SetUnchecked(r, typeID, resID, langID, data) ==
    IF checkIdentifier(resID) # NoErr
    THEN [rs |-> r, err |-> checkIdentifier(resID)]
    ELSE [rs |-> set(r, typeID, resID, langID, data), err |-> NoErr]

\* ResourceSet.Set: the set after the call and the error returned
Set(r, typeID, resID, langID, data) ==
    IF checkIdentifier(resID) # NoErr
    THEN [rs |-> r, err |-> checkIdentifier(resID)]
    ELSE IF checkIdentifier(typeID) # NoErr
    THEN [rs |-> r, err |-> checkIdentifier(typeID)]
    ELSE [rs |-> set(r, typeID, resID, langID, data), err |-> NoErr]

(***************************************************************************)
(* Ordering: the caches OrderedKeys and NamesCount                         *)
(***************************************************************************)
\* a plausible slip: the languages are left in the order they were found in
reOrderUnsorted(re) ==
    IF ~re.OrderedKeys.nil THEN re
    ELSE LET s == SortIdentifiers({ID(l) : l \in DOMAIN re.Data})
         IN  [re EXCEPT !.OrderedKeys =
                  Slice([i \in 1..Len(s) |-> s[Len(s) + 1 - i].id])]

\* ResourceEntry.order
reOrder(re) ==
    IF ~re.OrderedKeys.nil THEN re
    ELSE LET s == SortIdentifiers({ID(l) : l \in DOMAIN re.Data})
         IN  [re EXCEPT !.OrderedKeys = Slice([i \in 1..Len(s) |-> s[i].id])]

\* TypeEntry.Order: nothing is done, for the resources either, when the
\* keys of the type are cached.
teOrder(te) ==
    IF ~te.OrderedKeys.nil THEN te
    ELSE LET keys == SortIdentifiers(DOMAIN te.Resources)
         IN  [Resources |-> [k \in DOMAIN te.Resources |-> reOrder(te.Resources[k])],
              OrderedKeys |-> Slice(keys),
              NamesCount |-> SearchFirstID(keys, 0, Len(keys))]

\* ResourceSet.order: the set with its caches filled, and the state's
\* orderedKeys and namesCount
order(r) ==
    LET keys == SortIdentifiers(DOMAIN r.Types)
    IN  [rs |-> [r EXCEPT !.Types = [k \in DOMAIN r.Types |-> teOrder(r.Types[k])]],
         orderedKeys |-> keys,
         namesCount |-> SearchFirstID(keys, 0, Len(keys))]

RECURSIVE ConcatAll(_)
ConcatAll(ss) == IF ss = <<>> THEN <<>> ELSE Head(ss) \o ConcatAll(Tail(ss))

\* The three nested loops of Walk, writeDataIndex and writeData over the
\* cached keys of a type: one [typeID, resID, langID, data] per turn of the
\* innermost loop.
typeLeaves(tk, te) ==
    ConcatAll([j \in 1..Len(te.OrderedKeys.keys) |->
        LET rk == te.OrderedKeys.keys[j]
            re == te.Resources[rk]
        IN  [k \in 1..Len(re.OrderedKeys.keys) |->
                LET dk == re.OrderedKeys.keys[k]
                IN  [typeID |-> tk, resID |-> rk, langID |-> dk,
                     data |-> re.Data[dk].Data]]])

leaves(r, tkeys) ==
    ConcatAll([i \in 1..Len(tkeys) |-> typeLeaves(tkeys[i], r.Types[tkeys[i]])])

\* The calls a visitor receives that answers false to its limit-th call
\* (limit 0: it never stops the walk).
Stopped(calls, limit) ==
    IF limit = 0 \/ limit >= Len(calls) THEN calls ELSE SubSeq(calls, 1, limit)

\* ResourceSet.Walk
Walk(r, limit) ==
    LET o == order(r)
    IN  [rs |-> o.rs, visited |-> Stopped(leaves(o.rs, o.orderedKeys), limit)]

\* ResourceSet.WalkType
WalkType(r, typeID, limit) ==
    IF typeID \notin DOMAIN r.Types THEN [rs |-> r, visited |-> <<>>]
    ELSE LET te == teOrder(r.Types[typeID])
         IN  [rs |-> [r EXCEPT !.Types[typeID] = te],
              visited |-> Stopped(typeLeaves(typeID, te), limit)]

(***************************************************************************)
(* The encoder: little-endian fields, UTF-16, the layout plan, the writes  *)
(***************************************************************************)
Zeros(n) == [i \in 1..n |-> 0]

\* binary.Write of a uint16
LE16(n) == <<n % 256, (n \div 256) % 256>>

\* binary.Write of uint32(n), bit 31 set when flag holds (n is below 2^31)
LE32(n, flag) ==
    <<n % 256, (n \div 256) % 256, (n \div TwoTo16) % 256,
      ((n \div (256 * TwoTo16)) % 128) + (IF flag THEN 128 ELSE 0)>>

\* a plausible slip: uint16(r), no surrogate pair
EncodeRuneTruncated(r) == <<r % TwoTo16>>

\* utf16.Encode of one rune: a surrogate pair above the basic plane, U+FFFD
\* for what is no Unicode scalar value
EncodeRune(r) ==
    IF (0 <= r /\ r < 55296) \/ (57344 <= r /\ r < TwoTo16) THEN <<r>>
    ELSE IF TwoTo16 <= r /\ r <= 1114111
    THEN <<55296 + ((r - TwoTo16) \div 1024), 56320 + ((r - TwoTo16) % 1024)>>
    ELSE <<65533>>

\* utf16.Encode([]rune(n))
utf16Encode(runes) == ConcatAll([i \in 1..Len(runes) |-> EncodeRune(runes[i])])

\* a plausible slip: rounding down
alignDataDown(offset) == (offset \div dataAlignment) * dataAlignment

\* alignData: (offset + dataAlignment - 1) &^ (dataAlignment - 1)
alignData(offset) == ((offset + dataAlignment - 1) \div dataAlignment) * dataAlignment

\* DataEntry.paddedDataSize
paddedDataSize(de) == alignData(Len(de.Data.bytes))

\* TypeEntry.size
teSize(te) == sizeOfDirTable + Cardinality(DOMAIN te.Resources) * sizeOfDirEntry

\* ResourceEntry.size
reSize(re) == sizeOfDirTable + Cardinality(DOMAIN re.Data) * sizeOfDirEntry

RECURSIVE SumOver(_, _)
SumOver(f, S) ==
    IF S = {} THEN 0
    ELSE LET x == CHOOSE y \in S : TRUE IN f[x] + SumOver(f, S \ {x})

\* ResourceSet.dirSize
dirSize(r) ==
    sizeOfDirTable + Cardinality(DOMAIN r.Types) * sizeOfDirEntry
    + SumOver([t \in DOMAIN r.Types |->
          LET te == r.Types[t]
          IN  teSize(te)
              + SumOver([i \in DOMAIN te.Resources |->
                    reSize(te.Resources[i])
                    + Cardinality(DOMAIN te.Resources[i].Data) * sizeOfDataEntry],
                    DOMAIN te.Resources)],
          DOMAIN r.Types)

\* sort.Strings
RECURSIVE SortStrings(_)
SortStrings(S) ==
    IF S = {} THEN <<>>
    ELSE LET x == CHOOSE y \in S : \A z \in S : ~StrLess(z, y)
         IN  <<x>> \o SortStrings(S \ {x})

\* writeDirectoryTable
writeDirectoryTable(numNameEntries, numIDEntries) ==
    Zeros(12) \o LE16(numNameEntries % TwoTo16) \o LE16(numIDEntries % TwoTo16)

\* writeDirectoryEntry
writeDirectoryEntry(id, offset, isName, isSubDir) ==
    LE32(id, isName) \o LE32(offset, isSubDir)

\* a plausible slip: the size is written where the address belongs
writeDataEntrySwapped(offset, dataSize) ==
    LE32(dataSize, FALSE) \o LE32(offset, FALSE) \o Zeros(8)

\* writeDataEntry
writeDataEntry(offset, dataSize) ==
    LE32(offset, FALSE) \o LE32(dataSize, FALSE) \o Zeros(8)

\* s.nameOffset[ident.(Name)]: a key the map lacks reads as 0
nameOffsetOf(s, ident) ==
    IF ident.isName /\ ident.name \in DOMAIN s.nameOffset
    THEN s.nameOffset[ident.name] ELSE 0

\* The loop of prepare over the sorted names, from the i-th on, laid out
\* from offset on; u is utf16.Encode of the i-th name.
RECURSIVE layoutNames(_, _, _, _)
layoutName(s, names, i, offset, u) ==
    layoutNames([s EXCEPT !.nameOffset = MapPut(@, names[i], offset),
                          !.namesData = @ \o <<Len(u) % TwoTo16>> \o u],
                names, i + 1, offset + (Len(u) + 1) * 2)

layoutNames(s, names, i, offset) ==
    IF i > Len(names) THEN s
    ELSE layoutName(s, names, i, offset, utf16Encode(names[i]))

\* the keys te.OrderedKeys[:te.NamesCount] of all the types
leadingKeys(r) ==
    UNION {{r.Types[t].OrderedKeys.keys[i] : i \in 1..r.Types[t].NamesCount} :
           t \in DOMAIN r.Types}

\* nameSet of prepare: the names of the types and of their resources
nameSetOf(r) ==
    {t.name : t \in {x \in DOMAIN r.Types : x.isName}}
    \cup {k.name : k \in {x \in leadingKeys(r) : x.isName}}

\* The state of prepare before the names are laid out.  s.out collects what
\* is written to w; s.panic tells that a type assertion ident.(Name) or
\* ident.(ID) failed.
newState(o) ==
    [offset |-> 0, relocAddr |-> <<>>, nameOffset |-> EmptyMap,
     namesData |-> <<>>, orderedKeys |-> o.orderedKeys,
     namesCount |-> o.namesCount, out |-> <<>>,
     panic |-> \E k \in leadingKeys(o.rs) : ~k.isName]

\* the end of prepare: the names are padded to align the resource data
padNames(r, s) ==
    [rs |-> r,
     s |-> [s EXCEPT !.namesData =
                @ \o Zeros((alignData(Len(@) * 2) - Len(@) * 2) \div 2)]]

prepareOrdered(o) ==
    padNames(o.rs,
        layoutNames(newState(o), SortStrings(nameSetOf(o.rs)), 1, dirSize(o.rs)))

\* ResourceSet.prepare: the set with its caches filled, and the state s
prepare(r) == prepareOrdered(order(r))

\* The two loops of writeTypeDir and of TypeEntry.write over keys[i..]: the
\* first namesCount keys are written as names, the others as ordinals;
\* sizes[k] is the size of the directory table of key k.
RECURSIVE writeEntries(_, _, _, _, _)
writeEntries(s, keys, namesCount, sizes, i) ==
    IF i > Len(keys) THEN s
    ELSE LET ident == keys[i]
             e == IF i <= namesCount
                  THEN writeDirectoryEntry(nameOffsetOf(s, ident), s.offset, TRUE, TRUE)
                  ELSE writeDirectoryEntry(ident.id, s.offset, FALSE, TRUE)
         IN  writeEntries(
                 [s EXCEPT !.out = @ \o e,
                           !.panic = @ \/ (ident.isName # (i <= namesCount)),
                           !.offset = @ + sizes[ident]],
                 keys, namesCount, sizes, i + 1)

\* ResourceSet.writeTypeDir
writeTypeDir(r, s) ==
    LET s1 == [s EXCEPT
                 !.out = @ \o writeDirectoryTable(s.namesCount,
                                  Len(s.orderedKeys) - s.namesCount),
                 !.offset = @ + sizeOfDirTable + Len(s.orderedKeys) * sizeOfDirEntry]
    IN  writeEntries(s1, s.orderedKeys, s.namesCount,
                     [t \in DOMAIN r.Types |-> teSize(r.Types[t])], 1)

\* TypeEntry.write
teWrite(te, s) ==
    LET s1 == [s EXCEPT
                 !.out = @ \o writeDirectoryTable(te.NamesCount,
                                  Len(te.OrderedKeys.keys) - te.NamesCount)]
    IN  writeEntries(s1, te.OrderedKeys.keys, te.NamesCount,
                     [i \in DOMAIN te.Resources |-> reSize(te.Resources[i])], 1)

\* ResourceSet.writeResDirs, from the i-th type on
RECURSIVE writeResDirs(_, _, _)
writeResDirs(r, s, i) ==
    IF i > Len(s.orderedKeys) THEN s
    ELSE writeResDirs(r, teWrite(r.Types[s.orderedKeys[i]], s), i + 1)

\* the loop of ResourceEntry.write over the cached languages, from the k-th on
RECURSIVE reWriteEntries(_, _, _)
reWriteEntries(re, s, k) ==
    IF k > Len(re.OrderedKeys.keys) THEN s
    ELSE reWriteEntries(re,
             [s EXCEPT !.relocAddr = Append(@, s.offset),
                       !.out = @ \o writeDirectoryEntry(re.OrderedKeys.keys[k],
                                        s.offset, FALSE, FALSE),
                       !.offset = @ + sizeOfDataEntry],
             k + 1)

\* ResourceEntry.write
reWrite(re, s) ==
    reWriteEntries(re,
        [s EXCEPT !.out = @ \o writeDirectoryTable(0, Cardinality(DOMAIN re.Data))],
        1)

\* ResourceSet.writeLangDirs: the resources of the i-th type from the j-th on,
\* then the types that follow
RECURSIVE writeLangDirs(_, _, _, _)
writeLangDirs(r, s, i, j) ==
    IF i > Len(s.orderedKeys) THEN s
    ELSE LET te == r.Types[s.orderedKeys[i]]
         IN  IF j > Len(te.OrderedKeys.keys) THEN writeLangDirs(r, s, i + 1, 1)
             ELSE writeLangDirs(r,
                      reWrite(te.Resources[te.OrderedKeys.keys[j]], s), i, j + 1)

\* DataEntry.write
deWrite(de, s) ==
    [s EXCEPT !.out = @ \o writeDataEntry(s.offset, Len(de.Data.bytes)),
              !.offset = @ + paddedDataSize(de)]

\* ResourceSet.writeDataIndex, over the leaves ls[k..]
RECURSIVE writeDataIndex(_, _, _)
writeDataIndex(ls, s, k) ==
    IF k > Len(ls) THEN s
    ELSE writeDataIndex(ls, deWrite([Data |-> ls[k].data], s), k + 1)

\* DataEntry.writeData
deWriteData(de) ==
    de.Data.bytes \o Zeros(paddedDataSize(de) - Len(de.Data.bytes))

\* ResourceSet.writeData
writeData(ls) == ConcatAll([k \in 1..Len(ls) |-> deWriteData([Data |-> ls[k].data])])

\* the names table as binary.Write puts it out
namesBytes(namesData) ==
    ConcatAll([i \in 1..Len(namesData) |-> LE16(namesData[i])])

\* the end of write: the data index, the names, the data
writeLeaves(r, ls, s) ==
    [rs |-> r,
     bytes |-> s.out \o namesBytes(s.namesData) \o writeData(ls),
     reloc |-> s.relocAddr,
     panic |-> s.panic]

writeIndexed(r, ls, s) == writeLeaves(r, ls, writeDataIndex(ls, s, 1))

\* names will be inserted between the last directory level and actual data
writeAfterDirs(r, s) ==
    writeIndexed(r, leaves(r, s.orderedKeys),
                 [s EXCEPT !.offset = @ + Len(s.namesData) * 2])

writePrepared(p) ==
    writeAfterDirs(p.rs,
        writeLangDirs(p.rs, writeResDirs(p.rs, writeTypeDir(p.rs, p.s), 1), 1, 1))

\* ResourceSet.write: the set with its caches filled, the bytes written to w
\* and the relocation list returned
write(r) == writePrepared(prepare(r))

\* ResourceSet.bytes
bytes(r) == write(r).bytes


(***************************************************************************)
(* Icon embedding: an icon is the sequence of its images, each             *)
(* [Info, Image]                                                           *)
(***************************************************************************)
\* the comparison of Icon.order: more bits per pixel first, then wider
\* first; the width is a uint8 in which 0 stands for 256
IconLess(img1, img2) ==
    \/ img1.Info.BitCount > img2.Info.BitCount
    \/ /\ img1.Info.BitCount = img2.Info.BitCount
       /\ ((img1.Info.Width - 1) % 256) + 1 > ((img2.Info.Width - 1) % 256) + 1

\* sort.SliceStable, one step: img goes after the images that are not after it
RECURSIVE insertImage(_, _)
insertImage(sorted, img) ==
    IF sorted = <<>> THEN <<img>>
    ELSE IF IconLess(img, Head(sorted)) THEN <<img>> \o sorted
    ELSE <<Head(sorted)>> \o insertImage(Tail(sorted), img)

\* Icon.order
RECURSIVE iconOrder(_)
iconOrder(images) ==
    IF images = <<>> THEN <<>>
    ELSE insertImage(iconOrder(SubSeq(images, 1, Len(images) - 1)),
                     images[Len(images)])

\* binary.Write of iconDirHeader{Type: 1, Count: count}
iconDirHeader(count) == LE16(0) \o LE16(1) \o LE16(count)

\* binary.Write of iconResDirEntry{IconInfo: info, Id: id}
iconResDirEntry(info, id) ==
    <<info.Width, info.Height, info.ColorCount, info.Reserved>>
        \o LE16(info.Planes) \o LE16(info.BitCount)
        \o LE32(info.BytesInRes, FALSE) \o LE16(id)

\* The loop of SetIconTranslation over images[i..]: r is the set, b the
\* buffer, minted the record of the ids taken so far, each with the set it
\* was taken from. The id is lastIconID + 1 in a uint16.
RECURSIVE embedImages(_, _, _, _, _)
embedded(images, i, b, minted, res) ==
    IF res.err # NoErr
    THEN [rs |-> res.rs, err |-> res.err, b |-> b, minted |-> minted]
    ELSE embedImages(res.rs, images, i + 1, b, minted)

embedImage(r, images, i, b, minted, id) ==
    embedded(images, i, b \o iconResDirEntry(images[i].Info, id),
             Append(minted, [id |-> id, rs |-> r]),
             Set(r, ID(RT_ICON), ID(id), LCIDNeutral, images[i].Image))

embedImages(r, images, i, b, minted) ==
    IF i > Len(images)
    THEN [rs |-> r, err |-> NoErr, b |-> b, minted |-> minted]
    ELSE embedImage(r, images, i, b, minted, (r.lastIconID + 1) % TwoTo16)

\* the end of SetIconTranslation: the error of the loop, or the Set of the
\* group
embedGroup(e, resID, langID) ==
    IF e.err # NoErr THEN [rs |-> e.rs, err |-> e.err, minted |-> e.minted]
    ELSE [minted |-> e.minted]
             @@ Set(e.rs, ID(RT_GROUP_ICON), resID, langID, Bytes(e.b))

\* ResourceSet.SetIconTranslation: the set after the call, the error
\* returned, and the ids it took
SetIconTranslation(r, resID, langID, icon) ==
    embedGroup(embedImages(r, iconOrder(icon), 1, iconDirHeader(Len(icon)), <<>>),
               resID, langID)
(***************************************************************************)
(* The decoder.  A uint32 read from the section is the record [hi, lo] of  *)
(* its two 16-bit halves; an int64 is such a record with any integer hi.   *)
(***************************************************************************)
U16At(b, off) == b[off + 1] + 256 * b[off + 2]

U32At(b, off) == [hi |-> U16At(b, off + 2), lo |-> U16At(b, off)]

U32(n) == [hi |-> n \div TwoTo16, lo |-> n % TwoTo16]

\* int64(a) - int64(b)
WSub(a, b) ==
    IF a.lo >= b.lo THEN [hi |-> a.hi - b.hi, lo |-> a.lo - b.lo]
    ELSE [hi |-> a.hi - b.hi - 1, lo |-> a.lo + TwoTo16 - b.lo]

\* a + b
WAdd(a, b) ==
    [hi |-> a.hi + b.hi + ((a.lo + b.lo) \div TwoTo16), lo |-> (a.lo + b.lo) % TwoTo16]

\* a > b
WGreater(a, b) == a.hi > b.hi \/ (a.hi = b.hi /\ a.lo > b.lo)

\* v & 0x80000000 != 0
HasFlag(v) == v.hi >= flagBit

\* v &^ 0x80000000, which is below 2^31
ClearFlag(v) == (v.hi % flagBit) * TwoTo16 + v.lo

\* binaryRead of n bytes with the reader at pos: whether the bytes are there
\* (nothing is read, and nothing fails, when n is 0)
CanRead(b, pos, n) == n = 0 \/ (n <= Len(b) /\ pos <= Len(b) - n)

\* utf16.Decode, from the i-th code unit on: a high surrogate followed by a
\* low one is one rune, a surrogate alone is U+FFFD
RECURSIVE utf16Decode(_, _)
utf16Decode(u, i) ==
    IF i > Len(u) THEN <<>>
    ELSE IF u[i] < 55296 \/ u[i] >= 57344 THEN <<u[i]>> \o utf16Decode(u, i + 1)
    ELSE IF u[i] < 56320 /\ i < Len(u) /\ u[i + 1] >= 56320 /\ u[i + 1] < 57344
    THEN <<((u[i] - 55296) * 1024) + (u[i + 1] - 56320) + TwoTo16>>
         \o utf16Decode(u, i + 2)
    ELSE <<65533>> \o utf16Decode(u, i + 1)

\* readName
readName(b, offset) ==
    IF ~CanRead(b, offset, 2) THEN [err |-> "errUnexpectedEOF", ident |-> Name(<<>>)]
    ELSE LET length == U16At(b, offset)
         IN  IF ~CanRead(b, offset + 2, 2 * length)
             THEN [err |-> "errUnexpectedEOF", ident |-> Name(<<>>)]
             ELSE [err |-> NoErr,
                   ident |-> Name(utf16Decode(
                       [i \in 1..length |-> U16At(b, offset + 2 * i)], 1))]

\* a plausible slip: a language entry that carries the name flag is resolved
\* as a name instead of being refused
readEntryNamedLeaf(b, pos, leaf) ==
    LET id  == U32At(b, pos)
        off == U32At(b, pos + 4)
    IN  IF leaf # ~HasFlag(off)
        THEN [err |-> "errInvalidResDir", ident |-> ID(0), offset |-> 0, leaf |-> FALSE]
        ELSE IF ~HasFlag(id)
        THEN [err |-> NoErr, ident |-> ID(id.lo), offset |-> ClearFlag(off),
              leaf |-> FALSE]
        ELSE LET n == readName(b, ClearFlag(id))
             IN  [err |-> n.err, ident |-> n.ident, offset |-> ClearFlag(off),
                  leaf |-> FALSE]

\* The body of the loop of readDirTable for the directory entry at pos: the
\* two assertions, then the dirEntry [ident, offset, leaf].
readEntry(b, pos, leaf) ==
    LET id  == U32At(b, pos)
        off == U32At(b, pos + 4)
    IN  IF leaf # ~HasFlag(off)
        THEN [err |-> "errInvalidResDir", ident |-> ID(0), offset |-> 0, leaf |-> FALSE]
        ELSE IF leaf /\ HasFlag(id)
        THEN [err |-> "errInvalidResDir", ident |-> ID(0), offset |-> 0, leaf |-> FALSE]
        ELSE IF ~HasFlag(id)
        THEN [err |-> NoErr, ident |-> ID(id.lo), offset |-> ClearFlag(off),
              leaf |-> FALSE]
        ELSE LET n == readName(b, ClearFlag(id))
             IN  [err |-> n.err, ident |-> n.ident, offset |-> ClearFlag(off),
                  leaf |-> FALSE]

\* the loop of readDirTable over the n entries that start at pos, from the
\* i-th on; e is what the body made of the i-th: the first error ends it
RECURSIVE readEntries(_, _, _, _, _, _)
readEntriesNext(b, pos, n, leaf, i, acc, e) ==
    IF e.err # NoErr THEN [err |-> e.err, entries |-> <<>>]
    ELSE readEntries(b, pos, n, leaf, i + 1,
             Append(acc, [ident |-> e.ident, offset |-> e.offset, leaf |-> FALSE]))

readEntries(b, pos, n, leaf, i, acc) ==
    IF i > n THEN [err |-> NoErr, entries |-> acc]
    ELSE readEntriesNext(b, pos, n, leaf, i, acc,
             readEntry(b, pos + (i - 1) * sizeOfDirEntry, leaf))

\* the length of the slice dir of readDirTable: the sum of two uint16
dirLen(numNameEntries, numIDEntries) == (numNameEntries + numIDEntries) % TwoTo16

\* readDirTable once the header is read: its counts are nn and ni
readDir(b, de, nn, ni) ==
    IF ~CanRead(b, de.offset + sizeOfDirTable, dirLen(nn, ni) * sizeOfDirEntry)
    THEN [err |-> "errUnexpectedEOF", entries |-> <<>>, names |-> nn, ids |-> ni]
    ELSE [names |-> nn, ids |-> ni] @@
         readEntries(b, de.offset + sizeOfDirTable, dirLen(nn, ni), de.leaf, 1, <<>>)

\* dirEntry.readDirTable: the error, the entries, and the two counts of the
\* header (for the record of the visit)
readDirTable(b, de) ==
    IF ~CanRead(b, de.offset, sizeOfDirTable)
    THEN [err |-> "errUnexpectedEOF", entries |-> <<>>, names |-> 0, ids |-> 0]
    ELSE readDir(b, de, U16At(b, de.offset + 12), U16At(b, de.offset + 14))

\* a plausible slip: the end of the payload is not checked, only its start
\* (the payload returned is then what the section holds from there on)
readDataNoEnd(b, de, baseAddress) ==
    IF ~CanRead(b, de.offset, sizeOfDataEntry)
    THEN [err |-> "errUnexpectedEOF", data |-> NilData, rva |-> U32(0), size |-> U32(0)]
    ELSE LET rva    == U32At(b, de.offset)
             size   == U32At(b, de.offset + 4)
             offset == WSub(rva, baseAddress)
             from   == offset.hi * TwoTo16 + offset.lo
             count  == size.hi * TwoTo16 + size.lo
         IN  IF offset.hi < 0 \/ WGreater(offset, U32(Len(b)))
             THEN [err |-> "errDataEntryOutOfBounds", data |-> NilData,
                   rva |-> rva, size |-> size]
             ELSE IF WGreater(WAdd(offset, size), U32(Len(b)))
             THEN [err |-> NoErr, data |-> Bytes(SubSeq(b, from + 1, Len(b))),
                   rva |-> rva, size |-> size]
             ELSE [err |-> NoErr, data |-> Bytes(SubSeq(b, from + 1, from + count)),
                   rva |-> rva, size |-> size]

\* dirEntry.readData: the error, the payload, and the record's two fields
readData(b, de, baseAddress) ==
    IF ~CanRead(b, de.offset, sizeOfDataEntry)
    THEN [err |-> "errUnexpectedEOF", data |-> NilData, rva |-> U32(0), size |-> U32(0)]
    ELSE LET rva    == U32At(b, de.offset)
             size   == U32At(b, de.offset + 4)
             offset == WSub(rva, baseAddress)
             from   == offset.hi * TwoTo16 + offset.lo
             count  == size.hi * TwoTo16 + size.lo
         IN  IF offset.hi < 0 \/ WGreater(WAdd(offset, size), U32(Len(b)))
             THEN [err |-> "errDataEntryOutOfBounds", data |-> NilData,
                   rva |-> rva, size |-> size]
             ELSE [err |-> NoErr, data |-> Bytes(SubSeq(b, from + 1, from + count)),
                   rva |-> rva, size |-> size]

\* The decoder's state d is [rs, err, log]: the set being filled, the first
\* error, and the record of what was visited (the tables read, the data
\* records read, the Set calls).
TableEvent(level, de, t) ==
    [kind |-> "table", level |-> level, offset |-> de.offset, leaf |-> de.leaf,
     names |-> t.names, ids |-> t.ids, entries |-> Len(t.entries), err |-> t.err]

DataEvent(de, x) ==
    [kind |-> "data", offset |-> de.offset, rva |-> x.rva, size |-> x.size,
     err |-> x.err]

SetEvent(typeID, resID, langID, data, res) ==
    [kind |-> "set", typeID |-> typeID, resID |-> resID, langID |-> langID,
     data |-> data, err |-> res.err]

\* The innermost callback of read, for langs[k..]: x is what readData
\* returned for langs[k], res what rs.Set then returned.
RECURSIVE walkLangs(_, _, _, _, _, _, _)
walkLangSet(b, baseAddress, d, typeIdent, resIdent, langs, k, x, res) ==
    walkLangs(b, baseAddress,
        [rs |-> res.rs, err |-> res.err,
         log |-> d.log \o <<DataEvent(langs[k], x),
                            SetEvent(typeIdent, resIdent, langs[k].ident.id,
                                     x.data, res)>>],
        typeIdent, resIdent, langs, k + 1)

walkLang(b, baseAddress, d, typeIdent, resIdent, langs, k, x) ==
    IF x.err # NoErr
    THEN [d EXCEPT !.err = x.err, !.log = Append(@, DataEvent(langs[k], x))]
    ELSE IF langs[k].ident.isName
    THEN [d EXCEPT !.err = "panic", !.log = Append(@, DataEvent(langs[k], x))]
    ELSE walkLangSet(b, baseAddress, d, typeIdent, resIdent, langs, k, x,
             Set(d.rs, typeIdent, resIdent, langs[k].ident.id, x.data))

walkLangs(b, baseAddress, d, typeIdent, resIdent, langs, k) ==
    IF k > Len(langs) \/ d.err # NoErr THEN d
    ELSE walkLang(b, baseAddress, d, typeIdent, resIdent, langs, k,
             readData(b, langs[k], baseAddress))

\* The middle callback of read, for resources[j..]: the entry is tagged leaf
\* and walked; t is what readDirTable returned for it.
RECURSIVE walkResources(_, _, _, _, _, _)
walkResource(b, baseAddress, d, typeIdent, resources, j, de, t) ==
    walkResources(b, baseAddress,
        walkLangs(b, baseAddress,
            [d EXCEPT !.err = t.err, !.log = Append(@, TableEvent(3, de, t))],
            typeIdent, de.ident, t.entries, 1),
        typeIdent, resources, j + 1)

walkLeaf(b, baseAddress, d, typeIdent, resources, j, de) ==
    walkResource(b, baseAddress, d, typeIdent, resources, j, de, readDirTable(b, de))

walkResources(b, baseAddress, d, typeIdent, resources, j) ==
    IF j > Len(resources) \/ d.err # NoErr THEN d
    ELSE walkLeaf(b, baseAddress, d, typeIdent, resources, j,
             [resources[j] EXCEPT !.leaf = TRUE])

\* a plausible slip: the raw type admits its group type too
skippedBothWays(ident, typeID) ==
    /\ typeID # ID(0)
    /\ ident # typeID
    /\ {ident, typeID} # {ID(RT_ICON), ID(RT_GROUP_ICON)}
    /\ {ident, typeID} # {ID(RT_CURSOR), ID(RT_GROUP_CURSOR)}

\* the type filter of read: whether the type entry is skipped
skipped(ident, typeID) ==
    /\ typeID # ID(0)
    /\ ident # typeID
    /\ (ident # ID(RT_ICON) \/ typeID # ID(RT_GROUP_ICON))
    /\ (ident # ID(RT_CURSOR) \/ typeID # ID(RT_GROUP_CURSOR))

\* The outer callback of read, for types[i..]; t is what readDirTable
\* returned for the i-th type.
RECURSIVE walkTypes(_, _, _, _, _, _)
walkType(b, baseAddress, typeID, d, types, i, t) ==
    walkTypes(b, baseAddress, typeID,
        walkResources(b, baseAddress,
            [d EXCEPT !.err = t.err, !.log = Append(@, TableEvent(2, types[i], t))],
            types[i].ident, t.entries, 1),
        types, i + 1)

walkTypes(b, baseAddress, typeID, d, types, i) ==
    IF i > Len(types) \/ d.err # NoErr THEN d
    ELSE IF skipped(types[i].ident, typeID)
    THEN walkTypes(b, baseAddress, typeID, d, types, i + 1)
    ELSE walkType(b, baseAddress, typeID, d, types, i, readDirTable(b, types[i]))

rootEntry == [ident |-> ID(0), offset |-> 0, leaf |-> FALSE]

readRoot(r, b, baseAddress, typeID, t) ==
    walkTypes(b, baseAddress, typeID,
        [rs |-> r, err |-> t.err, log |-> <<TableEvent(1, rootEntry, t)>>],
        t.entries, 1)

\* ResourceSet.read with dirEntry.walk: [rs, err, log]
read(r, b, baseAddress, typeID) ==
    readRoot(r, b, baseAddress, typeID, readDirTable(b, rootEntry))

\* a plausible slip: the set is returned with the error
loadedPartial(d) == [isNil |-> FALSE, rs |-> d.rs, err |-> d.err, log |-> d.log]

\* the end of loadFromEXE: nil and the error when read failed
loadedFrom(d) ==
    IF d.err # NoErr
    THEN [isNil |-> TRUE, rs |-> EmptySet, err |-> d.err, log |-> d.log]
    ELSE [isNil |-> FALSE, rs |-> d.rs, err |-> NoErr, log |-> d.log]

\* loadFromEXE, from the section and the base address that
\* extractRSRCSection found
loadFromEXE(b, baseAddress, typeID) ==
    loadedFrom(read(EmptySet, b, baseAddress, typeID))

\* LoadFromEXESingleType, from the section and the base address that
\* extractRSRCSection finds
LoadFromEXESingleType(b, baseAddress, typeID) ==
    IF typeID = ID(0)
    THEN [isNil |-> TRUE, rs |-> EmptySet, err |-> "errZeroID", log |-> <<>>]
    ELSE loadFromEXE(b, baseAddress, typeID)
(***************************************************************************)
(* The inputs the operations are called with                               *)
(***************************************************************************)
NameA == <<65>>

\* "A" followed by U+1F600, which UTF-16 encodes as a surrogate pair
NameB == <<65, 128512>>

ValidTypeIDs == {ID(RT_ICON), Name(NameA)}

ValidResIDs == {ID(1), Name(NameA)}

InvalidIDs == {ID(0), Name(<<>>)}

TypeIDs == ValidTypeIDs \cup InvalidIDs

ResIDs == ValidResIDs \cup InvalidIDs

\* the pairs of a type and a resource identifier of which one at least is
\* the zero ordinal or the empty name
InvalidKeys ==
    {k \in TypeIDs \X ResIDs : k[1] \in InvalidIDs \/ k[2] \in InvalidIDs}

\* the invalid keys Set is called with: the type, the resource, or both
\* invalid
InvalidCalls ==
    {<<ID(0), ID(1)>>, <<Name(NameA), Name(<<>>)>>, <<Name(<<>>), ID(0)>>}

Langs == {LCIDNeutral, LCIDDefault}

Payloads == {Bytes(<<170, 170, 170, 170>>),
             Bytes(<<255, 255, 255, 255, 255, 255, 255, 255, 255, 255>>)}

\* the visitor of a walk stops at its first call, or never (0)
Limits == {0, 1}

\* the (type, id, language) triples a set holds
Triples(r) ==
    {<<t, i, l>> \in TypeIDs \X ResIDs \X Langs : ~Get(r, t, i, l).isNil}

AllTriples(r) ==
    UNION {UNION {{<<t, i, l>> : l \in DOMAIN r.Types[t].Resources[i].Data} :
                  i \in DOMAIN r.Types[t].Resources} : t \in DOMAIN r.Types}

(***************************************************************************)
(* The operations on one resource set                                      *)
(***************************************************************************)
NoLoad == [isNil |-> TRUE, rs |-> EmptySet, log |-> <<>>,
           baseAddress |-> U32(0), typeID |-> ID(0)]

Init ==
    /\ rs = EmptySet
    /\ op = [name |-> "new", kind |-> "new"]
    /\ err = NoErr
    /\ visited = <<>>
    /\ section = <<>>
    /\ reloc = <<>>
    /\ loaded = NoLoad

\* what a call of Set does to the set it is called on
SetKind(r, typeID, resID, langID, data) ==
    IF Set(r, typeID, resID, langID, data).err # NoErr THEN "rejected"
    ELSE IF data.isNil
    THEN IF Get(r, typeID, resID, langID).isNil THEN "deleteAbsent" ELSE "delete"
    ELSE IF Get(r, typeID, resID, langID).isNil THEN "insert" ELSE "replace"

\* rs.Set(typeID, resID, langID, data)
SetOp(typeID, resID, langID, data) ==
    LET res == Set(rs, typeID, resID, langID, data)
    IN  /\ Cardinality(AllTriples(res.rs)) <= MaxTriples
        /\ rs' = res.rs
        /\ op' = [name |-> "Set", kind |-> SetKind(rs, typeID, resID, langID, data)]
        /\ err' = res.err
        /\ visited' = <<>>
        /\ section' = <<>>
        /\ reloc' = <<>>
        /\ loaded' = NoLoad

\* rs.Walk(f)
WalkOp(limit) ==
    LET res == Walk(rs, limit)
    IN  /\ rs' = res.rs
        /\ op' = [name |-> "Walk", kind |-> IF limit = 0 THEN "all" ELSE "stop"]
        /\ err' = NoErr
        /\ visited' = res.visited
        /\ section' = <<>>
        /\ reloc' = <<>>
        /\ loaded' = NoLoad

\* rs.WalkType(typeID, f)
WalkTypeOp(typeID, limit) ==
    LET res == WalkType(rs, typeID, limit)
    IN  /\ rs' = res.rs
        /\ op' = [name |-> "WalkType", kind |-> IF limit = 0 THEN "all" ELSE "stop"]
        /\ err' = NoErr
        /\ visited' = res.visited
        /\ section' = <<>>
        /\ reloc' = <<>>
        /\ loaded' = NoLoad

\* rs.write(w), as ResourceSet.bytes and WriteObject call it; res is what
\* it returns
Written(res) ==
    /\ rs' = res.rs
    /\ op' = [name |-> "write", kind |-> "all"]
    /\ err' = IF res.panic THEN "panic" ELSE NoErr
    /\ visited' = <<>>
    /\ section' = IF res.panic THEN <<>> ELSE res.bytes
    /\ reloc' = IF res.panic THEN <<>> ELSE res.reloc
    /\ loaded' = NoLoad

WriteOp == Written(write(rs))

Next ==
    \/ \E t \in ValidTypeIDs, i \in ValidResIDs, l \in Langs,
          d \in Payloads \cup {NilData} : SetOp(t, i, l, d)
    \/ \E k \in InvalidCalls, d \in {NilData, Bytes(<<170, 170, 170, 170>>)} :
           SetOp(k[1], k[2], LCIDNeutral, d)
    \/ \E limit \in Limits : WalkOp(limit)
    \/ \E t \in ValidTypeIDs, limit \in Limits : WalkTypeOp(t, limit)
    \/ WriteOp

Spec == Init /\ [][Next]_vars

(***************************************************************************)
(* A set built by Set calls, then written and read back                    *)
(***************************************************************************)
BuildTypeIDs == {ID(RT_ICON), Name(NameA), Name(NameB)}

BuildResIDs == {ID(1), ID(2), Name(NameA)}

BuildPayloads == Payloads \cup {Bytes(<<>>)}

Building == op.name \in {"new", "Set"}

\* loadFromEXE(exe, typeID) of an image whose .rsrc section is b, at
\* baseAddress; res is what it returns
Loaded(b, baseAddress, typeID, res) ==
    /\ op' = [name |-> "loadFromEXE", kind |-> op.name]
    /\ err' = res.err
    /\ section' = b
    /\ loaded' = [isNil |-> res.isNil, rs |-> res.rs, log |-> res.log,
                  baseAddress |-> baseAddress, typeID |-> typeID]
    /\ UNCHANGED <<rs, visited, reloc>>

LoadOp(b, baseAddress, typeID) ==
    Loaded(b, baseAddress, typeID, loadFromEXE(b, baseAddress, typeID))

NextBuild ==
    \/ /\ Building
       /\ \E t \in BuildTypeIDs, i \in BuildResIDs, l \in Langs, d \in BuildPayloads :
              SetOp(t, i, l, d)
    \/ /\ Building
       /\ WriteOp
    \/ /\ op.name = "write"
       /\ LoadOp(section, U32(0), ID(0))

SpecBuild == Init /\ [][NextBuild]_vars

(***************************************************************************)
(* The decoder on sections that were damaged after they were written       *)
(***************************************************************************)
DamageTypeIDs == {ID(RT_ICON), Name(NameA)}

DamageResIDs == {ID(1), Name(NameA)}

\* one payload, which ends where its padded room ends
DamagePayloads == {Bytes(<<1, 2, 3, 4, 5, 6, 7, 8>>)}

\* the 32-bit values a field is overwritten with: zero, one, the flag bit
\* alone, all ones, 0x0001FFFF and 4096
PokeValues ==
    {U32(0), U32(1), [hi |-> flagBit, lo |-> 0], [hi |-> TwoTo16 - 1, lo |-> TwoTo16 - 1],
     [hi |-> 1, lo |-> TwoTo16 - 1], U32(4096)}

BaseAddresses == {U32(0), U32(4096)}

\* b with the 32-bit field at pos (0-based) replaced by v
Poke32(b, pos, v) ==
    [i \in 1..Len(b) |->
        IF i = pos + 1 THEN v.lo % 256
        ELSE IF i = pos + 2 THEN v.lo \div 256
        ELSE IF i = pos + 3 THEN v.hi % 256
        ELSE IF i = pos + 4 THEN v.hi \div 256
        ELSE b[i]]

\* the 32-bit field at pos, plus one
Inc32(b, pos) == Poke32(b, pos, WAdd(U32At(b, pos), U32(1)))

Damaged(name) ==
    /\ op' = [name |-> name, kind |-> "section"]
    /\ UNCHANGED <<rs, err, visited, reloc, loaded>>

\* one 32-bit field of the section is overwritten
PokeOp(pos, v) ==
    /\ section' = Poke32(section, pos, v)
    /\ section' # section
    /\ Damaged("poke")

\* one 32-bit field of the section is increased by one
IncOp(pos) ==
    /\ U32At(section, pos).hi < TwoTo16 - 1
    /\ section' = Inc32(section, pos)
    /\ Damaged("inc")

\* the section is cut short
TruncateOp(n) ==
    /\ section' = SubSeq(section, 1, n)
    /\ Damaged("truncate")

Words(b) == {4 * k : k \in 0..((Len(b) \div 4) - 1)}

NextDamage ==
    \/ /\ Building
       /\ \E t \in DamageTypeIDs, i \in DamageResIDs, l \in Langs, d \in DamagePayloads :
              /\ Get(rs, t, i, l).isNil
              /\ SetOp(t, i, l, d)
    \/ /\ Building
       /\ WriteOp
    \/ /\ op.name = "write"
       /\ \E pos \in Words(section), v \in PokeValues : PokeOp(pos, v)
    \/ /\ op.name = "write"
       /\ \E pos \in Words(section) : IncOp(pos)
    \/ /\ op.name = "write"
       /\ \E n \in Words(section) : TruncateOp(n)
    \/ /\ op.name \in {"write", "poke", "inc", "truncate"}
       /\ \E base \in BaseAddresses : LoadOp(section, base, ID(0))

SpecDamage == Init /\ [][NextDamage]_vars


(***************************************************************************)
(* A written section read back with a type filter                          *)
(***************************************************************************)
FilterTypeIDs ==
    {ID(RT_CURSOR), ID(RT_ICON), ID(RT_GROUP_CURSOR), ID(RT_GROUP_ICON), Name(NameA)}

FilterResIDs == {ID(1)}

\* the types LoadFromEXESingleType is asked for: those above, a type no set
\* holds, and ID(0)
FilterArgs == FilterTypeIDs \cup {Name(NameB), ID(0)}

LoadSingleTypeOp(b, baseAddress, typeID) ==
    Loaded(b, baseAddress, typeID, LoadFromEXESingleType(b, baseAddress, typeID))

NextFilter ==
    \/ /\ Building
       /\ \E t \in FilterTypeIDs, i \in FilterResIDs, l \in Langs, d \in Payloads :
              /\ Get(rs, t, i, l).isNil
              /\ SetOp(t, i, l, d)
    \/ /\ Building
       /\ WriteOp
    \/ /\ op.name = "write"
       /\ \E t \in FilterArgs : LoadSingleTypeOp(section, U32(0), t)

SpecFilter == Init /\ [][NextFilter]_vars

(***************************************************************************)
(* The icon and cursor counters: Set and SetIconTranslation on one set     *)
(***************************************************************************)
CounterTypeIDs == {ID(RT_CURSOR), ID(RT_ICON), ID(RT_GROUP_ICON)}

\* two small ordinals, the last ordinal but one, and a name
CounterResIDs == {ID(1), ID(2), ID(TwoTo16 - 2), Name(NameA)}

\* a 16 pixel image and a 256 pixel image (width 0), both 32 bits per pixel
SmallImage ==
    [Info |-> [Width |-> 16, Height |-> 16, ColorCount |-> 0, Reserved |-> 0,
               Planes |-> 1, BitCount |-> 32, BytesInRes |-> 4],
     Image |-> Bytes(<<170, 170, 170, 170>>)]

LargeImage ==
    [Info |-> [Width |-> 0, Height |-> 0, ColorCount |-> 0, Reserved |-> 0,
               Planes |-> 1, BitCount |-> 32, BytesInRes |-> 10],
     Image |-> Bytes(<<255, 255, 255, 255, 255, 255, 255, 255, 255, 255>>)]

Icons == {<<SmallImage>>, <<SmallImage, LargeImage>>}

\* icons are embedded while the counter is small, and when it is about to
\* wrap
Mintable(r) == r.lastIconID < MaxMinted \/ r.lastIconID >= TwoTo16 - 2

\* the set after a call that returned res
Stored(name, kind, res, minted) ==
    /\ Cardinality(AllTriples(res.rs)) <= MaxCounterTriples
    /\ rs' = res.rs
    /\ op' = [name |-> name, kind |-> kind, minted |-> minted]
    /\ err' = res.err
    /\ visited' = <<>>
    /\ section' = <<>>
    /\ reloc' = <<>>
    /\ loaded' = NoLoad

\* rs.Set(typeID, resID, langID, data)
CounterSetOp(typeID, resID, langID, data) ==
    Stored("Set", SetKind(rs, typeID, resID, langID, data),
           Set(rs, typeID, resID, langID, data), <<>>)

\* rs.SetIconTranslation(resID, langID, icon)
SetIconOp(resID, langID, icon, res) ==
    Stored("SetIconTranslation", IF res.err = NoErr THEN "stored" ELSE "failed",
           res, res.minted)

NextCounters ==
    \/ \E t \in CounterTypeIDs, i \in CounterResIDs,
          d \in {Bytes(<<170, 170, 170, 170>>), NilData} :
           CounterSetOp(t, i, LCIDNeutral, d)
    \/ /\ Mintable(rs)
       /\ \E icon \in Icons :
              SetIconOp(ID(1), LCIDNeutral, icon,
                        SetIconTranslation(rs, ID(1), LCIDNeutral, icon))

SpecCounters == Init /\ [][NextCounters]_vars
(***************************************************************************)
(* What the claims are stated with                                         *)
(***************************************************************************)
\* the set that Set calls build from the triples S of r, whatever r went
\* through
RECURSIVE RebuiltFrom(_, _, _)
RebuiltFrom(r, S, acc) ==
    IF S = {} THEN acc
    ELSE LET x == CHOOSE y \in S : TRUE
         IN  RebuiltFrom(r, S \ {x},
                 Set(acc, x[1], x[2], x[3], Get(r, x[1], x[2], x[3])).rs)

Rebuilt(r) == RebuiltFrom(r, AllTriples(r), EmptySet)

\* The order of the specification on identifiers: every name before every
\* ordinal, names in lexicographic order, ordinals in numeric order.
IdentBefore(a, b) ==
    \/ a.isName /\ ~b.isName
    \/ a.isName /\ b.isName /\ StrLess(a.name, b.name)
    \/ ~a.isName /\ ~b.isName /\ a.id < b.id

\* the serialization order on triples: the type, then the resource, then the
\* language
TripleBefore(x, y) ==
    \/ IdentBefore(x[1], y[1])
    \/ x[1] = y[1] /\ IdentBefore(x[2], y[2])
    \/ x[1] = y[1] /\ x[2] = y[2] /\ x[3] < y[3]

RECURSIVE InOrder(_)
InOrder(S) ==
    IF S = {} THEN <<>>
    ELSE LET x == CHOOSE y \in S : \A z \in S \ {y} : TripleBefore(y, z)
         IN  <<x>> \o InOrder(S \ {x})

\* the triples of r in serialization order
Canonical(r) == InOrder(AllTriples(r))

\* what a visitor that never stops is to be called with
CanonicalVisits(r) ==
    [k \in 1..Len(Canonical(r)) |->
        LET x == Canonical(r)[k]
        IN  [typeID |-> x[1], resID |-> x[2], langID |-> x[3],
             data |-> Get(r, x[1], x[2], x[3])]]

\* the section holds the bytes p from the (0-based) offset on
HoldsAt(b, offset, p) ==
    /\ offset + Len(p) <= Len(b)
    /\ \A i \in 1..Len(p) : b[offset + i] = p[i]

\* the little-endian value of the 4 bytes at offset, when they are there and
\* bit 31 is clear; -1 otherwise
Field32(b, offset) ==
    IF offset + 4 <= Len(b) /\ b[offset + 4] < 128
    THEN b[offset + 1] + 256 * b[offset + 2] + TwoTo16 * b[offset + 3]
         + 256 * TwoTo16 * b[offset + 4]
    ELSE -1

(***************************************************************************)
(* C1: a set built by Set calls, written and read back with baseAddress 0  *)
(* and no type filter, is read back with exactly its triples, each with    *)
(* exactly its payload.                                                    *)
(***************************************************************************)
C1_RoundTrip ==
    op.name = "loadFromEXE" =>
        /\ err = NoErr
        /\ ~loaded.isNil
        /\ AllTriples(loaded.rs) = AllTriples(rs)
        /\ \A t \in BuildTypeIDs, i \in BuildResIDs, l \in Langs :
               Get(loaded.rs, t, i, l) = Get(rs, t, i, l)

\* the scenario of the specification, read back
C1_Witness ==
    /\ op.name = "loadFromEXE"
    /\ Get(rs, ID(RT_ICON), ID(1), LCIDNeutral)
           = Bytes(<<255, 255, 255, 255, 255, 255, 255, 255, 255, 255>>)
    /\ Get(rs, ID(RT_ICON), ID(2), LCIDDefault) = Bytes(<<170, 170, 170, 170>>)
    /\ Get(loaded.rs, ID(RT_ICON), ID(2), LCIDDefault) = Bytes(<<170, 170, 170, 170>>)
    /\ Get(loaded.rs, ID(RT_ICON), ID(1), LCIDDefault).isNil

(***************************************************************************)
(* C2: what write returns depends on the triples and payloads of the set   *)
(* alone: it is what the set built afresh from them returns, bytes and     *)
(* relocation list, whatever calls the set went through.                   *)
(***************************************************************************)
C2_Deterministic ==
    (op.name = "write" /\ err = NoErr) =>
        /\ section = write(Rebuilt(rs)).bytes
        /\ reloc = write(Rebuilt(rs)).reloc

(***************************************************************************)
(* C3: the set never holds a type without resources nor a resource without *)
(* language variants; a type whose last variant was deleted is gone.       *)
(***************************************************************************)
C3_Pruned ==
    \A t \in DOMAIN rs.Types :
        /\ DOMAIN rs.Types[t].Resources # {}
        /\ \A i \in DOMAIN rs.Types[t].Resources :
               DOMAIN rs.Types[t].Resources[i].Data # {}

\* a deletion emptied the set: the types went with their last variant
C3_Witness ==
    /\ op = [name |-> "Set", kind |-> "delete"]
    /\ DOMAIN rs.Types = {}

(***************************************************************************)
(* C4: Set with the zero ordinal or the empty name as type or resource     *)
(* identifier returns an error and leaves the set as it was, counters      *)
(* included, whether the payload is there or not.                          *)
(***************************************************************************)
C4_InvalidKeyRejected ==
    \A k \in InvalidKeys, l \in Langs, d \in Payloads \cup {NilData} :
        LET res == Set(rs, k[1], k[2], l, d)
        IN  /\ res.err \in {"errZeroID", "errEmptyName"}
            /\ res.rs = rs

\* an invalid key was refused by a set that holds something
C4_Witness ==
    /\ op = [name |-> "Set", kind |-> "rejected"]
    /\ err # NoErr
    /\ AllTriples(rs) # {}

(***************************************************************************)
(* C5: after Set(t, r, l, p) with valid identifiers, Get(t, r, l) is p     *)
(* (absent when p is absent), and Get of every other triple is what it     *)
(* was.                                                                    *)
(***************************************************************************)
C5_SetGetFrame ==
    \A t \in ValidTypeIDs, i \in ValidResIDs, l \in Langs, d \in Payloads \cup {NilData} :
        LET res == Set(rs, t, i, l, d)
        IN  /\ res.err = NoErr
            /\ Get(res.rs, t, i, l) = d
            /\ \A t2 \in ValidTypeIDs, i2 \in ValidResIDs, l2 \in Langs :
                   <<t2, i2, l2>> # <<t, i, l>> =>
                       Get(res.rs, t2, i2, l2) = Get(rs, t2, i2, l2)

\* a payload was replaced in a set that holds another triple
C5_Witness ==
    /\ op = [name |-> "Set", kind |-> "replace"]
    /\ Cardinality(AllTriples(rs)) = 2

(***************************************************************************)
(* C6: a Walk whose visitor never stops calls it once for every triple of  *)
(* the set and for no other, in serialization order, after any sequence of *)
(* Set, Walk, WalkType and write.                                          *)
(***************************************************************************)
C6_WalkComplete ==
    (op.name = "Walk" /\ op.kind = "all") => visited = CanonicalVisits(rs)

(***************************************************************************)
(* C7: the relocation list that write returns has one entry per triple of  *)
(* the set, in serialization order; each is the offset of the 16 bytes     *)
(* data record of its triple, whose first 4 bytes are the offset at which  *)
(* the payload of that triple begins in the output.                        *)
(***************************************************************************)
C7_Relocations ==
    (op.name = "write" /\ err = NoErr) =>
        /\ Len(reloc) = Cardinality(AllTriples(rs))
        /\ \A k \in 1..Len(reloc) :
               /\ reloc[k] = dirSize(rs) - (Len(reloc) - k + 1) * sizeOfDataEntry
               /\ k <= Len(Canonical(rs))
               /\ Field32(section, reloc[k]) >= 0
               /\ Field32(section, reloc[k] + 4) =
                      Len(CanonicalVisits(rs)[k].data.bytes)
               /\ HoldsAt(section, Field32(section, reloc[k]),
                          CanonicalVisits(rs)[k].data.bytes)

(***************************************************************************)
(* What the claims on the decoder are stated with: the section that was    *)
(* read, and the record of the reading in loaded.log                       *)
(***************************************************************************)
\* bit 31 of the 4 bytes at offset
Bit31(b, offset) == b[offset + 4] >= 128

\* the payload [from, from + size) lies within the section, where from is
\* rva - baseAddress
InBounds(e, from) ==
    /\ e.rva = WAdd(loaded.baseAddress, U32(from))
    /\ e.size.hi = 0
    /\ e.size.lo <= Len(section) - from

\* the number of entries the decoder takes a visited table to have
EntriesOf(e) == (e.names + e.ids) % TwoTo16

\* the header and the entries of a visited table are within the section
Readable(e) ==
    e.offset <= Len(section) - sizeOfDirTable - EntriesOf(e) * sizeOfDirEntry

\* where the i-th entry of a visited table is
EntryAt(e, i) == e.offset + sizeOfDirTable + (i - 1) * sizeOfDirEntry

\* the i-th entry of a visited table breaks a structural assertion
Violates(e, i) ==
    IF e.level = 3
    THEN Bit31(section, EntryAt(e, i) + 4) \/ Bit31(section, EntryAt(e, i))
    ELSE ~Bit31(section, EntryAt(e, i) + 4)

\* the errors of the invalid directory class
InvalidDirectoryErrors ==
    {"errInvalidResDir", "errDataEntryOutOfBounds", "errUnexpectedEOF"}

(***************************************************************************)
(* C8: a data record the decoder reaches whose payload, at rva minus       *)
(* baseAddress, starts before the section or ends after it, fails the      *)
(* decoding with the out-of-bounds error; a payload that is accepted is    *)
(* the bytes of the section at that place, and no other.                   *)
(***************************************************************************)
C8_PayloadInBounds ==
    op.name = "loadFromEXE" =>
        \A k \in DOMAIN loaded.log :
            (loaded.log[k].kind = "data" /\ loaded.log[k].err # "errUnexpectedEOF") =>
                IF \E from \in 0..Len(section) : InBounds(loaded.log[k], from)
                THEN /\ loaded.log[k].err = NoErr
                     /\ k < Len(loaded.log)
                     /\ loaded.log[k + 1].kind = "set"
                     /\ \E from \in 0..Len(section) :
                            /\ InBounds(loaded.log[k], from)
                            /\ loaded.log[k + 1].data =
                                   Bytes(SubSeq(section, from + 1,
                                                from + loaded.log[k].size.lo))
                ELSE /\ loaded.log[k].err = "errDataEntryOutOfBounds"
                     /\ err = "errDataEntryOutOfBounds"
                     /\ loaded.isNil
                     /\ k = Len(loaded.log)

\* a payload that starts within the section and ends after it was refused
C8_Witness ==
    /\ op.name = "loadFromEXE"
    /\ err = "errDataEntryOutOfBounds"
    /\ \E k \in DOMAIN loaded.log :
           /\ loaded.log[k].kind = "data"
           /\ loaded.log[k].size.hi = 0
           /\ \E from \in 0..Len(section) :
                  /\ loaded.log[k].rva = WAdd(loaded.baseAddress, U32(from))
                  /\ loaded.log[k].size.lo > Len(section) - from

(***************************************************************************)
(* C9: a table the decoder visits that has an entry without the            *)
(* subdirectory bit at the root or type level, or with it at the language  *)
(* level, or with a name as language key, fails the decoding there with an *)
(* error of the invalid directory class, which is errInvalidResDir unless  *)
(* an earlier entry of the table is named; a named language key is never   *)
(* accepted, and the decoder does not panic.                               *)
(***************************************************************************)
C9_StructuralAssertions ==
    op.name = "loadFromEXE" =>
        /\ err # "panic"
        /\ \A k \in DOMAIN loaded.log :
               (loaded.log[k].kind = "table" /\ Readable(loaded.log[k])) =>
                   \A i \in 1..EntriesOf(loaded.log[k]) :
                       Violates(loaded.log[k], i) =>
                           /\ loaded.log[k].err \in InvalidDirectoryErrors
                           /\ err = loaded.log[k].err
                           /\ loaded.isNil
                           /\ k = Len(loaded.log)
                           /\ (\A j \in 1..(i - 1) :
                                   ~Bit31(section, EntryAt(loaded.log[k], j)))
                                  => err = "errInvalidResDir"

\* a language table whose first entry has a name as key was refused
C9_Witness ==
    /\ op.name = "loadFromEXE"
    /\ err = "errInvalidResDir"
    /\ \E k \in DOMAIN loaded.log :
           /\ loaded.log[k].kind = "table"
           /\ loaded.log[k].level = 3
           /\ Readable(loaded.log[k])
           /\ EntriesOf(loaded.log[k]) >= 1
           /\ Bit31(section, EntryAt(loaded.log[k], 1))
           /\ ~Bit31(section, EntryAt(loaded.log[k], 1) + 4)

(***************************************************************************)
(* C10: a decoding that fails, at whatever step, returns the error and no  *)
(* set at all; it stops at the first failure, so what failed is the last   *)
(* thing it did.                                                           *)
(***************************************************************************)
C10_NoPartialModel ==
    op.name = "loadFromEXE" =>
        /\ \A k \in 1..(Len(loaded.log) - 1) : loaded.log[k].err = NoErr
        /\ IF err = NoErr
           THEN /\ ~loaded.isNil
                /\ \A k \in DOMAIN loaded.log : loaded.log[k].err = NoErr
           ELSE /\ loaded.isNil
                /\ loaded.rs = EmptySet
                /\ loaded.log # <<>>
                /\ loaded.log[Len(loaded.log)].err = err

\* the decoding failed after it had stored a resource
C10_Witness ==
    /\ op.name = "loadFromEXE"
    /\ err # NoErr
    /\ \E k \in DOMAIN loaded.log :
           loaded.log[k].kind = "set" /\ loaded.log[k].err = NoErr


(***************************************************************************)
(* C11: a written section read back for the type T gives the triples of    *)
(* the set whose type is T, those of the type RT_ICON too when T is        *)
(* RT_GROUP_ICON, those of the type RT_CURSOR too when T is                *)
(* RT_GROUP_CURSOR, with their payloads, and no other triple.              *)
(***************************************************************************)
Admitted(t, T) ==
    \/ t = T
    \/ T = ID(RT_GROUP_ICON) /\ t = ID(RT_ICON)
    \/ T = ID(RT_GROUP_CURSOR) /\ t = ID(RT_CURSOR)

C11_TypeFilter ==
    (op.name = "loadFromEXE" /\ loaded.typeID # ID(0)) =>
        /\ err = NoErr
        /\ ~loaded.isNil
        /\ AllTriples(loaded.rs) =
               {x \in AllTriples(rs) : Admitted(x[1], loaded.typeID)}
        /\ \A x \in AllTriples(loaded.rs) :
               Get(loaded.rs, x[1], x[2], x[3]) = Get(rs, x[1], x[2], x[3])

\* the group icon type was asked for of a set that holds an icon and a
\* resource of a named type: the icon came back, alone
C11_Witness ==
    /\ op.name = "loadFromEXE"
    /\ loaded.typeID = ID(RT_GROUP_ICON)
    /\ DOMAIN rs.Types = {ID(RT_ICON), Name(NameA)}
    /\ DOMAIN loaded.rs.Types = {ID(RT_ICON)}

(***************************************************************************)
(* C12: the ordered keys of the type level and of the resource level of    *)
(* every type list the names before the ordinals, the names in ascending   *)
(* lexicographic order and the ordinals in ascending numeric order; the    *)
(* ordered languages of every resource are ascending; and write puts out   *)
(* the directory entries of every table in the order of these keys.        *)
(***************************************************************************)
Lawful(keys) ==
    \A i, j \in DOMAIN keys : i < j => IdentBefore(keys[i], keys[j])

Ascending(keys) ==
    \A i, j \in DOMAIN keys : i < j => keys[i] < keys[j]

\* the identifiers of the entries of a table, as they are read from the
\* section
Idents(entries) == [k \in DOMAIN entries |-> entries[k].ident]

\* the id fields of the first n entries of the table at offset
EmittedLangs(b, offset, n) ==
    [k \in 1..n |-> Field32(b, offset + sizeOfDirTable + (k - 1) * sizeOfDirEntry)]

\* the entries of the resource table tab of the type te, and of the
\* language tables below it, are in the order of the cached keys
EmittedInOrder(te, tab) ==
    /\ tab.err = NoErr
    /\ Idents(tab.entries) = te.OrderedKeys.keys
    /\ \A j \in DOMAIN tab.entries :
           EmittedLangs(section, tab.entries[j].offset,
                        Len(te.Resources[tab.entries[j].ident].OrderedKeys.keys))
               = te.Resources[tab.entries[j].ident].OrderedKeys.keys

C12_OrderingLaw ==
    /\ Lawful(order(rs).orderedKeys)
    /\ \A t \in DOMAIN rs.Types :
           /\ Lawful(rs.Types[t].OrderedKeys.keys)
           /\ \A i \in DOMAIN rs.Types[t].Resources :
                  Ascending(rs.Types[t].Resources[i].OrderedKeys.keys)
    /\ op.name = "write" =>
           /\ readDirTable(section, rootEntry).err = NoErr
           /\ Idents(readDirTable(section, rootEntry).entries) = order(rs).orderedKeys
           /\ \A t \in DOMAIN rs.Types : ~rs.Types[t].OrderedKeys.nil
           /\ \A k \in DOMAIN readDirTable(section, rootEntry).entries :
                  EmittedInOrder(
                      rs.Types[readDirTable(section, rootEntry).entries[k].ident],
                      readDirTable(section, readDirTable(section, rootEntry).entries[k]))

\* a written type with a numbered and a named resource: the name is first
C12_Witness ==
    /\ op.name = "write"
    /\ \E t \in DOMAIN rs.Types :
           rs.Types[t].OrderedKeys.keys = <<Name(NameA), ID(1)>>

(***************************************************************************)
(* C13: the padded size of a payload is a multiple of 8, not less than its *)
(* length and less than 8 more; in what write puts out, every payload is   *)
(* followed by the zero bytes that fill its padded size, and by nothing    *)
(* else before the next payload or the end.                                *)
(***************************************************************************)
PaddedRight(n, padded) ==
    /\ padded % 8 = 0
    /\ padded >= n
    /\ padded - n < 8

\* the k-th payload d of the written section, at offset, and its padding
PaddedInSection(k, d, offset, padded) ==
    /\ PaddedRight(Len(d), padded)
    /\ HoldsAt(section, offset, d \o Zeros(padded - Len(d)))
    /\ IF k < Len(reloc)
       THEN Field32(section, reloc[k + 1]) = offset + padded
       ELSE Len(section) = offset + padded

C13_Alignment ==
    /\ \A n \in 0..MaxPayloadLen :
           PaddedRight(n, paddedDataSize([Data |-> Bytes(Zeros(n))]))
    /\ (op.name = "write" /\ err = NoErr) =>
           \A k \in 1..Len(reloc) :
               PaddedInSection(k, CanonicalVisits(rs)[k].data.bytes,
                   Field32(section, reloc[k]),
                   paddedDataSize([Data |-> CanonicalVisits(rs)[k].data]))

\* a payload of 10 bytes was written, and another one after it
C13_Witness ==
    /\ op.name = "write"
    /\ \E k \in 1..(Len(reloc) - 1) :
           Len(CanonicalVisits(rs)[k].data.bytes) = 10

(***************************************************************************)
(* C14: in what write puts out, the header of every directory table        *)
(* declares as many name entries as the node has named children and as     *)
(* many id entries as it has numbered ones (languages, for a resource),    *)
(* and that many entries follow it, the named ones first; the tables       *)
(* follow one another: the root, the types, the resources.                 *)
(***************************************************************************)
RECURSIVE KeysInOrder(_)
KeysInOrder(S) ==
    IF S = {} THEN <<>>
    ELSE LET x == CHOOSE y \in S : \A z \in S \ {y} : IdentBefore(y, z)
         IN  <<x>> \o KeysInOrder(S \ {x})

\* what the header of the table of a node with the children S is to declare
NodeOf(S, level) ==
    [names |-> Cardinality({k \in S : k.isName}),
     ids   |-> Cardinality({k \in S : ~k.isName}),
     level |-> level]

TypeNodes(r) ==
    [k \in 1..Cardinality(DOMAIN r.Types) |->
        NodeOf(DOMAIN r.Types[KeysInOrder(DOMAIN r.Types)[k]].Resources, 2)]

ResourceNodes(r, t) ==
    [k \in 1..Cardinality(DOMAIN r.Types[t].Resources) |->
        [names |-> 0,
         ids   |-> Cardinality(DOMAIN r.Types[t].Resources[
                       KeysInOrder(DOMAIN r.Types[t].Resources)[k]].Data),
         level |-> 3]]

\* the nodes of r in the order their tables are written
Nodes(r) ==
    <<NodeOf(DOMAIN r.Types, 1)>> \o TypeNodes(r) \o
    ConcatAll([k \in 1..Cardinality(DOMAIN r.Types) |->
                   ResourceNodes(r, KeysInOrder(DOMAIN r.Types)[k])])

\* the i-th entry after the header at pos is an entry of a table of that
\* level, named or not
EntryOfKind(b, pos, i, level, named) ==
    /\ Bit31(b, pos + sizeOfDirTable + (i - 1) * sizeOfDirEntry) = named
    /\ Bit31(b, pos + sizeOfDirTable + (i - 1) * sizeOfDirEntry + 4) = (level < 3)

\* the tables of nodes[k..] are in b from pos on, each with the header and
\* the entries of its node; the data index starts at last
RECURSIVE TablesMatch(_, _, _, _, _)
TablesMatch(b, pos, nodes, k, last) ==
    IF k > Len(nodes) THEN pos = last
    ELSE /\ pos + sizeOfDirTable
                + (nodes[k].names + nodes[k].ids) * sizeOfDirEntry <= Len(b)
         /\ U16At(b, pos + 12) = nodes[k].names
         /\ U16At(b, pos + 14) = nodes[k].ids
         /\ \A i \in 1..(nodes[k].names + nodes[k].ids) :
                EntryOfKind(b, pos, i, nodes[k].level, i <= nodes[k].names)
         /\ TablesMatch(b, pos + sizeOfDirTable
                               + (nodes[k].names + nodes[k].ids) * sizeOfDirEntry,
                        nodes, k + 1, last)

C14_HeaderCounts ==
    (op.name = "write" /\ err = NoErr) =>
        /\ Len(reloc) = Cardinality(AllTriples(rs))
        /\ TablesMatch(section, 0, Nodes(rs), 1,
                       dirSize(rs) - Cardinality(AllTriples(rs)) * sizeOfDataEntry)

(***************************************************************************)
(* C15: in what write puts out, the offset of every directory entry is the *)
(* place of what it refers to: of the table of the type, of the language   *)
(* table of the resource, of the data record of the variant; the id field  *)
(* of a named entry is the place of the name, length first, in the table   *)
(* of names that starts after the last data record.                        *)
(***************************************************************************)
\* the byte of b at the (0-based) offset, -1 when b ends before
ByteAt(b, offset) == IF offset + 1 \in DOMAIN b THEN b[offset + 1] ELSE -1

HalfAt(b, offset) ==
    IF offset + 2 <= Len(b) THEN b[offset + 1] + 256 * b[offset + 2] ELSE -1

\* the low 31 bits of the field at offset, and its bit 31
Low31(b, offset) ==
    IF offset + 4 <= Len(b)
    THEN b[offset + 1] + 256 * b[offset + 2] + TwoTo16 * b[offset + 3]
         + 256 * TwoTo16 * (b[offset + 4] % 128)
    ELSE -1

Flag31(b, offset) == ByteAt(b, offset + 3) >= 128

RECURSIVE SumFirst(_, _)
SumFirst(sizes, k) == IF k = 0 THEN 0 ELSE sizes[k] + SumFirst(sizes, k - 1)

IndexOf(seq, x) == CHOOSE k \in DOMAIN seq : seq[k] = x

\* the types, the resources and the names of r, in the order of the output
TypeSeq(r) == KeysInOrder(DOMAIN r.Types)

ResSeq(r) ==
    ConcatAll([k \in DOMAIN TypeSeq(r) |->
        [j \in 1..Cardinality(DOMAIN r.Types[TypeSeq(r)[k]].Resources) |->
            <<TypeSeq(r)[k],
              KeysInOrder(DOMAIN r.Types[TypeSeq(r)[k]].Resources)[j]>>]])

NameSeq(r) ==
    KeysInOrder({k \in DOMAIN r.Types : k.isName} \cup
                UNION {{i \in DOMAIN r.Types[t].Resources : i.isName} :
                       t \in DOMAIN r.Types})

\* where the table of the k-th type, the language table of the m-th
\* resource, the n-th data record and the k-th name are put out
TypeTablePos(r, k) ==
    sizeOfDirTable + Len(TypeSeq(r)) * sizeOfDirEntry
    + SumFirst([i \in DOMAIN TypeSeq(r) |->
                   sizeOfDirTable
                   + Cardinality(DOMAIN r.Types[TypeSeq(r)[i]].Resources)
                     * sizeOfDirEntry], k - 1)

LangTablePos(r, m) ==
    TypeTablePos(r, Len(TypeSeq(r)) + 1)
    + SumFirst([i \in DOMAIN ResSeq(r) |->
                   sizeOfDirTable
                   + Cardinality(DOMAIN r.Types[ResSeq(r)[i][1]]
                                        .Resources[ResSeq(r)[i][2]].Data)
                     * sizeOfDirEntry], m - 1)

DataRecordPos(r, n) ==
    LangTablePos(r, Len(ResSeq(r)) + 1) + (n - 1) * sizeOfDataEntry

NamePos(r, k) ==
    DataRecordPos(r, Len(Canonical(r)) + 1)
    + SumFirst([i \in DOMAIN NameSeq(r) |->
                   (Len(utf16Encode(NameSeq(r)[i].name)) + 1) * 2], k - 1)

\* the name is at pos: its length in code units, then its code units
NameAt(b, pos, name) ==
    /\ HalfAt(b, pos) = Len(utf16Encode(name))
    /\ \A i \in 1..Len(utf16Encode(name)) :
           HalfAt(b, pos + 2 * i) = utf16Encode(name)[i]

\* the entry at pos is the entry of ident and refers to target
RefersTo(r, b, pos, ident, target, subdirectory) ==
    /\ Low31(b, pos + 4) = target
    /\ Flag31(b, pos + 4) = subdirectory
    /\ Flag31(b, pos) = ident.isName
    /\ IF ident.isName
       THEN /\ Low31(b, pos) = NamePos(r, IndexOf(NameSeq(r), ident))
            /\ NameAt(b, NamePos(r, IndexOf(NameSeq(r), ident)), ident.name)
       ELSE Low31(b, pos) = ident.id

\* the data record at pos is the one of the payload d
RecordAt(b, pos, d) ==
    /\ Low31(b, pos + 4) = Len(d)
    /\ Low31(b, pos) >= 0
    /\ HoldsAt(b, Low31(b, pos), d)

C15_ForwardReferences ==
    (op.name = "write" /\ err = NoErr) =>
        /\ \A k \in DOMAIN TypeSeq(rs) :
               RefersTo(rs, section, sizeOfDirTable + (k - 1) * sizeOfDirEntry,
                        TypeSeq(rs)[k], TypeTablePos(rs, k), TRUE)
        /\ \A m \in DOMAIN ResSeq(rs) :
               RefersTo(rs, section,
                   TypeTablePos(rs, IndexOf(TypeSeq(rs), ResSeq(rs)[m][1]))
                   + sizeOfDirTable
                   + (IndexOf(KeysInOrder(DOMAIN rs.Types[ResSeq(rs)[m][1]].Resources),
                              ResSeq(rs)[m][2]) - 1) * sizeOfDirEntry,
                   ResSeq(rs)[m][2], LangTablePos(rs, m), TRUE)
        /\ \A n \in DOMAIN Canonical(rs) :
               /\ RefersTo(rs, section,
                      LangTablePos(rs, IndexOf(ResSeq(rs),
                          <<Canonical(rs)[n][1], Canonical(rs)[n][2]>>))
                      + sizeOfDirTable
                      + Cardinality({l \in DOMAIN rs.Types[Canonical(rs)[n][1]]
                                               .Resources[Canonical(rs)[n][2]].Data :
                                         l < Canonical(rs)[n][3]}) * sizeOfDirEntry,
                      ID(Canonical(rs)[n][3]), DataRecordPos(rs, n), FALSE)
               /\ RecordAt(section, DataRecordPos(rs, n),
                           CanonicalVisits(rs)[n].data.bytes)
        /\ TablesMatch(section, 0, Nodes(rs), 1, DataRecordPos(rs, 1))

\* a written set with a named type that has a resource of the same name:
\* both entries refer to the one name of the table of names
C15_Witness ==
    /\ op.name = "write"
    /\ Name(NameA) \in DOMAIN rs.Types
    /\ Name(NameA) \in DOMAIN rs.Types[Name(NameA)].Resources
    /\ Len(NameSeq(rs)) = 1

(***************************************************************************)
(* C16: for every directory table the decoder reads without an error, the  *)
(* number of directory entries it reads and processes is the sum of the    *)
(* two counts of the table's header, whatever the two counts are (a sum    *)
(* above 65535 too): it never processes fewer entries than the header      *)
(* declares without reporting an error.                                    *)
(***************************************************************************)
Declared(e) == e.names + e.ids

C16_EntryCount ==
    op.name = "loadFromEXE" =>
        \A k \in DOMAIN loaded.log :
            (loaded.log[k].kind = "table" /\ loaded.log[k].err = NoErr) =>
                loaded.log[k].entries = Declared(loaded.log[k])

(***************************************************************************)
(* C17: after any sequence of Set calls on a set that started empty (the   *)
(* Set calls of icon embedding among them), the icon counter is at least   *)
(* every ordinal stored under the type RT_ICON and the cursor counter at   *)
(* least every ordinal stored under the type RT_CURSOR; no call makes a    *)
(* counter smaller; and every id icon embedding takes as counter + 1 is    *)
(* not stored under RT_ICON in the set it is taken from.                   *)
(***************************************************************************)
Ordinals(r, typeID) ==
    IF typeID \in DOMAIN r.Types
    THEN {i.id : i \in {x \in DOMAIN r.Types[typeID].Resources : ~x.isName}}
    ELSE {}

CountersCover(r) ==
    /\ \A i \in Ordinals(r, ID(RT_ICON)) : r.lastIconID >= i
    /\ \A i \in Ordinals(r, ID(RT_CURSOR)) : r.lastCursorID >= i

MintedFresh ==
    op.name = "SetIconTranslation" =>
        \A k \in DOMAIN op.minted :
            op.minted[k].id \notin Ordinals(op.minted[k].rs, ID(RT_ICON))

CountersGrow ==
    /\ rs'.lastIconID >= rs.lastIconID
    /\ rs'.lastCursorID >= rs.lastCursorID

C17_Counters ==
    /\ [](CountersCover(rs) /\ MintedFresh)
    /\ [][CountersGrow]_vars

\* an icon of two images is embedded in a set that holds the icon 1 and
\* held the icon 2, deleted since: the ids taken are 3 and 4
C17_Witness ==
    /\ op.name = "SetIconTranslation"
    /\ err = NoErr
    /\ Len(op.minted) = 2
    /\ Ordinals(op.minted[1].rs, ID(RT_ICON)) = {1}
    /\ op.minted[1].rs.lastIconID = 2
    /\ op.minted[1].id = 3
    /\ op.minted[2].id = 4
    /\ Ordinals(rs, ID(RT_ICON)) = {1, 3, 4}
    /\ rs.lastIconID = 4
=============================================================================
